---- MODULE Spec2Model ----
(***************************************************************************)
(* A model of RSA/PlainRSA.py (class RsaKeyPair): the text codec, the      *)
(* public-exponent search, the modular inverse, the Miller-Rabin test, the *)
(* prime generator, the raw encrypt/decrypt transforms and the constructor *)
(* with its self-test.                                                     *)
(*                                                                         *)
(* Python integers are unbounded; the model checker's are 32-bit.  Every   *)
(* modulus of the model is therefore kept below 2^15.5, so that no product *)
(* of two residues overflows.  The two size constants of _decrypt (the     *)
(* 1023-bit threshold of the blinded path and the range 10^46..10^49 of    *)
(* the blinding factor) are scaled down with the keys: see BlindBits,      *)
(* RLo and RHi.                                                            *)
(***************************************************************************)
EXTENDS Integers, Sequences, FiniteSets, TLC

VARIABLES
    \* codec: stringToNumber / numberToString
    cpc, cmsg, cnum, cout,
    \* get_e / get_d applied to a totient
    apc, aphi, ae, ares,
    \* is_prime: argument n, rounds k, rounds done, witnesses drawn, result
    ppc, pn, pk, pi, pwit, pres,
    \* raw transforms: the key, the message, the cipher, the blinding
    \* factor drawn, the decrypted message
    kpc, key, km, kc, kr, kout,
    \* __init__: position, arguments (0: not supplied), fields of self,
    \* which prime is being generated, the local p of
    \* generate_prime_number, the exception raised
    gpc, args, self, gphase, gcand, gerr

codecVars == <<cpc, cmsg, cnum, cout>>
arithVars == <<apc, aphi, ae, ares>>
primeVars == <<ppc, pn, pk, pi, pwit, pres>>
cipherVars == <<kpc, key, km, kc, kr, kout>>
keyVars == <<gpc, args, self, gphase, gcand, gerr>>
vars == <<codecVars, arithVars, primeVars, cipherVars, keyVars>>

None == "None"

\* self before any attribute is set
NoFields == [unset |-> TRUE]

(***************************************************************************)
(* Bounds of the model.                                                    *)
(***************************************************************************)
MaxLen == 3      \* longest string given to the codec
MaxPhi == 120    \* largest totient given to get_e and get_d
MaxE == 12       \* largest public exponent given to get_d
MaxN == 30       \* largest number given to is_prime
MaxK == 2        \* largest round count given to is_prime
MaxPrime == 17   \* largest prime factor of a key given to the transforms
MaxKeylen == 9   \* largest keylength given to __init__

\* _decrypt blinds when nbits >= 1023 and draws r from 10^46..10^49, about
\* a sixth of the bits of the smallest blinded modulus.  The keys of the
\* model have at most 9 bits, so the threshold and the range are scaled to
\* them: BlindBits stands for 1023, RLo..RHi for 10^46..10^49.
BlindBits == 8
RLo == 2
RHi == 3

(***************************************************************************)
(* Constants of the program.                                               *)
(***************************************************************************)
MinKeylength == 1024   \* keylength < 1024 needs ignore_warning
Rounds == 128          \* is_prime(p, 128) in generate_prime_number
TestMsg == 12          \* msg = 12 in quick_test

\* Values the caller supplies for p, q, e, n and d (0: not supplied).
ArgP == {0, 5, 17}
ArgQ == {0, 5, 17}
ArgE == {0, 3}
ArgN == {0, 17}
ArgD == {0, 43}

\* Code points of the characters the codec is given: below and at the
\* four-digit limit, the marker itself, and beyond the limit.
Alphabet == {0, 7, 65, 1421, 9999, 10000, 65536}

(***************************************************************************)
(* Arithmetic of the language and its library.                             *)
(***************************************************************************)

RECURSIVE Gcd(_, _)
Gcd(a, b) == IF b = 0 THEN a ELSE Gcd(b, a % b)

RECURSIVE Pow2(_)
Pow2(k) == IF k = 0 THEN 1 ELSE 2 * Pow2(k - 1)

\* pow(b, e, n), n >= 1, e >= 0: square and multiply.
RECURSIVE ModExp(_, _, _)
ModExp(b, e, n) ==
    IF e = 0 THEN 1 % n
    ELSE LET h == ModExp(b, e \div 2, n)
             sq == (h * h) % n
         IN  IF e % 2 = 1 THEN (sq * (b % n)) % n ELSE sq

\* int(pow(n, 0.5)): the integer square root.
RECURSIVE ISqrtFrom(_, _)
ISqrtFrom(n, r) == IF (r + 1) * (r + 1) > n THEN r ELSE ISqrtFrom(n, r + 1)
ISqrt(n) == ISqrtFrom(n, 0)

(***************************************************************************)
(* bitcount                                                                *)
(***************************************************************************)
\* a = 1; while 1 << a <= n: a <<= 1
RECURSIVE bitcountGrow(_, _)
bitcountGrow(a, n) == IF Pow2(a) <= n THEN bitcountGrow(2 * a, n) ELSE a

\* while a > 1: a >>= 1; if n >= 1 << a: n >>= a; s += a
RECURSIVE bitcountShrink(_, _, _)
bitcountShrink(a, n, s) ==
    IF a > 1
    THEN LET a2 == a \div 2
         IN  IF n >= Pow2(a2)
             THEN bitcountShrink(a2, n \div Pow2(a2), s + a2)
             ELSE bitcountShrink(a2, n, s)
    ELSE IF n > 0 THEN s + 1 ELSE s

bitcount(n) == bitcountShrink(bitcountGrow(1, n), n, 0)

(***************************************************************************)
(* Codec.  An integer of the codec is far beyond 32 bits, so it is held as *)
(* its canonical decimal expansion: the sequence of its digits without     *)
(* leading zeros (zero is <<0>>).  int() of a digit string is then the     *)
(* removal of its leading zeros, and str() of an integer returns its       *)
(* expansion.                                                              *)
(***************************************************************************)
RECURSIVE DecDigits(_)
DecDigits(n) == IF n < 10 THEN <<n>> ELSE DecDigits(n \div 10) \o <<n % 10>>

\* s.zfill(w)
RECURSIVE zfill(_, _)
zfill(ds, w) == IF Len(ds) >= w THEN ds ELSE zfill(<<0>> \o ds, w)

\* int(ns) for a non-empty digit string ns
RECURSIVE IntOfDigits(_)
IntOfDigits(ds) ==
    IF Len(ds) > 1 /\ Head(ds) = 0 THEN IntOfDigits(Tail(ds)) ELSE ds

\* int(g) for a short digit string g, as a number
RECURSIVE DigitsVal(_)
DigitsVal(ds) ==
    IF ds = <<>> THEN 0
    ELSE 10 * DigitsVal(SubSeq(ds, 1, Len(ds) - 1)) + ds[Len(ds)]

Marker == <<1, 4, 2, 1>>

\* for c in str(msg): ns += str(ord(c)).zfill(4)
RECURSIVE AppendCodes(_, _)
AppendCodes(ns, msg) ==
    IF msg = <<>> THEN ns
    ELSE AppendCodes(ns \o zfill(DecDigits(Head(msg)), 4), Tail(msg))

\* A variant that forgets the marker.
stringToNumberNoMarker(msg) ==
    [kind |-> "value",
     val |-> IntOfDigits(AppendCodes(<<0>>, msg))]

\* Returns an integer for every string: no path of the code raises.
stringToNumber(msg) ==
    [kind |-> "value", val |-> IntOfDigits(AppendCodes(Marker, msg))]

\* for n in range(len(msg) // 4): cs += chr(int(msg[n*4 : n*4+4]))
numberToStringGroups(ds) ==
    [n \in 1..(Len(ds) \div 4) |-> DigitsVal(SubSeq(ds, 4 * n - 3, 4 * n))]

numberToString(num) ==
    LET ds == num
        body == IF Len(ds) >= 4 /\ SubSeq(ds, 1, 4) = Marker
                THEN SubSeq(ds, 5, Len(ds))
                ELSE ds
    IN  numberToStringGroups(body)

(***************************************************************************)
(* factors, get_e, get_d                                                   *)
(***************************************************************************)
\* set of i and n // i for i in range(1, int(pow(n, 0.5) + 1)) if n % i == 0
factors(n) ==
    UNION {{i, n \div i} : i \in {j \in 1..ISqrt(n) : n % j = 0}}

\* the inner for/else: no divisor of i other than 1 divides phi
get_eAccepts(i, phi) == \A j \in factors(i) \ {1} : phi % j # 0

\* range(3, 10001, 2)
get_eRange == {i \in 3..10000 : i % 2 = 1}

\* for i in range(3, 10001, 2): the first i the inner loop accepts is
\* returned; falling off the end of the loop returns None (kind "None").
get_e(phi) ==
    IF \E i \in get_eRange : get_eAccepts(i, phi)
    THEN [kind |-> "value",
          val |-> CHOOSE i \in get_eRange :
                     /\ get_eAccepts(i, phi)
                     /\ \A j \in 3..(i - 1) :
                            j % 2 = 1 => ~get_eAccepts(j, phi)]
    ELSE [kind |-> "None"]

\* while td2 < 0: td2 += self.phi
RECURSIVE get_dLift(_, _)
get_dLift(td2, phi) == IF td2 < 0 THEN get_dLift(td2 + phi, phi) ELSE td2

\* the while loop of get_d on the pairs t1 = [a0, a1], t2 = [b0, b1]
RECURSIVE get_dLoop(_, _, _, _, _)
get_dLoop(a0, a1, b0, b1, phi) ==
    IF a1 = 1 THEN [kind |-> "value", val |-> b1]
    ELSE IF a1 = 0 THEN [kind |-> "ZeroDivisionError"]
    ELSE LET tb1 == a0 \div a1
             td1 == a0 - tb1 * a1
             td2 == b0 - tb1 * b1
         IN  IF td2 < 0 /\ phi <= 0 THEN [kind |-> "diverges"]
             ELSE get_dLoop(a1, td1, b1, get_dLift(td2, phi), phi)

\* A variant that leaves td2 negative.
get_dNoLift(phi, e) ==
    LET RECURSIVE L(_, _, _, _)
        L(a0, a1, b0, b1) ==
            IF a1 = 1 THEN [kind |-> "value", val |-> b1]
            ELSE IF a1 = 0 THEN [kind |-> "ZeroDivisionError"]
            ELSE L(a1, a0 - (a0 \div a1) * a1, b1, b0 - (a0 \div a1) * b1)
    IN  L(phi, e, phi, 1)

get_d(phi, e) == get_dLoop(phi, e, phi, 1, phi)

(***************************************************************************)
(* is_prime (Miller-Rabin)                                                 *)
(***************************************************************************)
\* s = 0; r = n - 1; while r & 1 == 0: s += 1; r //= 2
RECURSIVE is_primeSplit(_, _)
is_primeSplit(s, r) ==
    IF r % 2 = 0 THEN is_primeSplit(s + 1, r \div 2) ELSE [s |-> s, r |-> r]

\* while j < s and x != n - 1: x = pow(x, 2, n); if x == 1: return False
\* The value of x on leaving the loop, or -1 for the return inside it.
RECURSIVE is_primeSquare(_, _, _, _)
is_primeSquare(x, j, s, n) ==
    IF j < s /\ x # n - 1
    THEN LET x2 == ModExp(x, 2, n)
         IN  IF x2 = 1 THEN -1 ELSE is_primeSquare(x2, j + 1, s, n)
    ELSE x

\* A variant without the test that follows the squaring loop.
is_primeRoundFailsInLoopOnly(n, a) ==
    LET sr == is_primeSplit(0, n - 1)
        x == ModExp(a, sr.r, n)
    IN  x # 1 /\ x # n - 1 /\ is_primeSquare(x, 1, sr.s, n) = -1

\* A variant whose squaring loop stops one step early.
is_primeRoundFailsShortLoop(n, a) ==
    LET sr == is_primeSplit(0, n - 1)
        x == ModExp(a, sr.r, n)
    IN  x # 1 /\ x # n - 1 /\ is_primeSquare(x, 1, sr.s - 1, n) # n - 1

\* One pass of the body of "for _ in range(k)" with witness a: TRUE when
\* the pass returns False.
is_primeRoundFails(n, a) ==
    LET sr == is_primeSplit(0, n - 1)
        x == ModExp(a, sr.r, n)
    IN  x # 1 /\ x # n - 1 /\ is_primeSquare(x, 1, sr.s, n) # n - 1

(***************************************************************************)
(* _encrypt, _decrypt on a key k = [p, q, e, n, d, phi, nbits]             *)
(***************************************************************************)
_encrypt(k, msg) ==
    IF bitcount(msg) >= k.nbits
    THEN [kind |-> "ValueError"]
    ELSE [kind |-> "value", val |-> ModExp(msg, k.e, k.n)]

\* A variant that applies the public exponent again.
_decryptWithE(k, cipher, r) ==
    IF k.nbits >= BlindBits
    THEN LET s == ModExp(r, k.e, k.n)
             X == (cipher * s) % k.n
             Y == ModExp(X, k.e, k.n)
         IN  (Y \div r) % k.n
    ELSE ModExp(cipher, k.e, k.n)

\* r is the value of self.sec.randint(...), drawn on the blinded path only.
_decrypt(k, cipher, r) ==
    IF k.nbits >= BlindBits
    THEN LET s == ModExp(r, k.e, k.n)
             X == (cipher * s) % k.n
             Y == ModExp(X, k.d, k.n)
         IN  (Y \div r) % k.n
    ELSE ModExp(cipher, k.d, k.n)

(***************************************************************************)
(* generate_prime_candidate, quick_test and the derivation of the fields   *)
(***************************************************************************)
\* A variant that does not force the top bit.
generate_prime_candidateNoTop(g, length) ==
    IF g % 2 = 1 THEN g ELSE g + 1

\* p = getrandbits(length) = g; p |= (1 << length - 1) | 1
generate_prime_candidate(g, length) ==
    LET top == Pow2(length - 1)
        withTop == IF (g \div top) % 2 = 1 THEN g ELSE g + top
    IN  IF withTop % 2 = 1 THEN withTop ELSE withTop + 1

\* quick_test on the fields k; r is the blinding factor its _decrypt draws.
\* "ok" or the exception raised.
quick_test(k, r) ==
    IF k.phi = 0 THEN "ZeroDivisionError"
    ELSE IF (k.e * k.d) % k.phi # 1 THEN "ValueError"
    ELSE LET cipher == _encrypt(k, TestMsg)
         IN  IF cipher.kind # "value" THEN "ValueError"
             ELSE IF _decrypt(k, cipher.val, r) # TestMsg THEN "ValueError"
             ELSE "ok"

\* Lines 79-88 of __init__ once self.p and self.q are set: phi, e, n, d,
\* nbits and the self-test.  [kind |-> "done", self |-> fields] or
\* [kind |-> the exception raised].
InitDerive(a, sp, sq, r) ==
    LET phi == (sp - 1) * (sq - 1)
        eR == IF a.e # 0 THEN [kind |-> "value", val |-> a.e] ELSE get_e(phi)
        n == IF a.n # 0 THEN a.n ELSE sp * sq
        dR == IF a.d # 0 THEN [kind |-> "value", val |-> a.d]
              ELSE IF eR.kind = "None" THEN [kind |-> "TypeError"]
              ELSE get_d(phi, eR.val)
    IN  IF dR.kind # "value" THEN [kind |-> dR.kind]
        ELSE IF eR.kind = "None" THEN [kind |-> "TypeError"]
        ELSE LET k == [p |-> sp, q |-> sq, phi |-> phi, e |-> eR.val,
                       n |-> n, d |-> dR.val, nbits |-> bitcount(n)]
                 t == quick_test(k, r)
             IN  IF t = "ok" THEN [kind |-> "done", self |-> k]
                 ELSE [kind |-> t]

(***************************************************************************)
(* Specification of the codec: a string is encoded, then decoded.          *)
(***************************************************************************)
Strings == UNION {[1..k -> Alphabet] : k \in 0..MaxLen}

CodecIdle == cpc = "idle" /\ cmsg = <<>> /\ cnum = None /\ cout = None
ArithIdle == apc = "idle" /\ aphi = 0 /\ ae = 0 /\ ares = None
PrimeIdle ==
    ppc = "idle" /\ pn = 0 /\ pk = 0 /\ pi = 0 /\ pwit = <<>> /\ pres = None
CipherIdle ==
    kpc = "idle" /\ key = None /\ km = 0 /\ kc = None /\ kr = 0 /\ kout = None
KeyIdle ==
    /\ gpc = "idle" /\ args = None /\ self = NoFields
    /\ gphase = None /\ gcand = 0 /\ gerr = None

CodecInit ==
    /\ cpc = "init"
    /\ cmsg \in Strings
    /\ cnum = None
    /\ cout = None
    /\ ArithIdle
    /\ PrimeIdle
    /\ CipherIdle
    /\ KeyIdle

Encode ==
    /\ cpc = "init"
    /\ cnum' = stringToNumber(cmsg)
    /\ cpc' = "encoded"
    /\ UNCHANGED <<cmsg, cout, arithVars, primeVars, cipherVars, keyVars>>

Decode ==
    /\ cpc = "encoded"
    /\ cnum.kind = "value"
    /\ cout' = numberToString(cnum.val)
    /\ cpc' = "decoded"
    /\ UNCHANGED <<cmsg, cnum, arithVars, primeVars, cipherVars, keyVars>>

CodecNext == Encode \/ Decode

CodecSpec == CodecInit /\ [][CodecNext]_vars

(***************************************************************************)
(* Specification of the exponent routines: get_e or get_d is applied to a  *)
(* totient (and, for get_d, a public exponent).                            *)
(***************************************************************************)
ArithInit ==
    /\ CodecIdle
    /\ PrimeIdle
    /\ CipherIdle
    /\ KeyIdle
    /\ ares = None
    /\ aphi \in 0..MaxPhi
    /\ \/ apc = "get_e" /\ ae = 0
       \/ apc = "get_d" /\ ae \in 1..MaxE

CallGetE ==
    /\ apc = "get_e"
    /\ ares' = get_e(aphi)
    /\ apc' = "e_done"
    /\ UNCHANGED <<aphi, ae, codecVars, primeVars, cipherVars, keyVars>>

CallGetD ==
    /\ apc = "get_d"
    /\ ares' = get_d(aphi, ae)
    /\ apc' = "d_done"
    /\ UNCHANGED <<aphi, ae, codecVars, primeVars, cipherVars, keyVars>>

ArithNext == CallGetE \/ CallGetD

ArithSpec == ArithInit /\ [][ArithNext]_vars

(***************************************************************************)
(* Specification of is_prime: it is called on n with k rounds; every round *)
(* draws its witness with randrange(2, n - 1).                             *)
(***************************************************************************)
PrimeInit ==
    /\ CodecIdle
    /\ ArithIdle
    /\ CipherIdle
    /\ KeyIdle
    /\ ppc = "call"
    /\ pn \in -1..MaxN
    /\ pk \in 0..MaxK
    /\ pi = 0
    /\ pwit = <<>>
    /\ pres = None

\* the two tests before the loop
IsPrimeEnter ==
    /\ ppc = "call"
    /\ IF pn = 2 \/ pn = 3
       THEN pres' = "True" /\ ppc' = "done"
       ELSE IF pn <= 1 \/ pn % 2 = 0
            THEN pres' = "False" /\ ppc' = "done"
            ELSE pres' = pres /\ ppc' = "loop"
    /\ UNCHANGED <<pn, pk, pi, pwit, codecVars, arithVars, cipherVars, keyVars>>

\* one round: a = randrange(2, n - 1).  The witnesses drawn are kept in
\* pwit when they are recorded.
IsPrimeRoundWith(recorded) ==
    /\ ppc = "loop"
    /\ pi < pk
    /\ \E a \in 2..(pn - 2) :
          /\ pwit' = IF recorded THEN Append(pwit, a) ELSE pwit
          /\ IF is_primeRoundFails(pn, a)
             THEN pres' = "False" /\ ppc' = "done" /\ pi' = pi
             ELSE pres' = pres /\ ppc' = "loop" /\ pi' = pi + 1
    /\ UNCHANGED <<pn, pk, codecVars, arithVars, cipherVars, keyVars>>

IsPrimeRound == IsPrimeRoundWith(TRUE)

\* the loop is exhausted: return True
IsPrimeReturn ==
    /\ ppc = "loop"
    /\ pi = pk
    /\ pres' = "True"
    /\ ppc' = "done"
    /\ UNCHANGED <<pn, pk, pi, pwit, codecVars, arithVars, cipherVars, keyVars>>

PrimeNext == IsPrimeEnter \/ IsPrimeRound \/ IsPrimeReturn

PrimeSpec == PrimeInit /\ [][PrimeNext]_vars

(***************************************************************************)
(* Specification of the raw transforms: a message is encrypted and the     *)
(* cipher decrypted under a valid private key.                             *)
(***************************************************************************)
IsPrime(n) == n > 1 /\ \A d \in 2..(n - 1) : n % d # 0

Primes == {n \in 2..MaxPrime : IsPrime(n)}

\* p, q distinct primes, n = p*q, phi = (p-1)(q-1), (e*d) mod phi = 1
ValidKeys ==
    UNION {
        LET phi == (p - 1) * (q - 1)
        IN  {[p |-> p, q |-> q, e |-> e, n |-> p * q, d |-> d, phi |-> phi,
              nbits |-> bitcount(p * q)] :
                <<e, d>> \in {ed \in (1..MaxE) \X (1..(2 * phi)) :
                                 (ed[1] * ed[2]) % phi = 1}}
        : <<p, q>> \in {pq \in Primes \X Primes : pq[1] # pq[2]}}

CipherInit ==
    /\ CodecIdle
    /\ ArithIdle
    /\ PrimeIdle
    /\ KeyIdle
    /\ kpc = "init"
    /\ key \in ValidKeys
    /\ km \in 0..key.n
    /\ kc = None
    /\ kr = 0
    /\ kout = None

RawEncrypt ==
    /\ kpc = "init"
    /\ kc' = _encrypt(key, km)
    /\ kpc' = IF kc'.kind = "value" THEN "encrypted" ELSE "error"
    /\ UNCHANGED <<key, km, kr, kout, codecVars, arithVars, primeVars, keyVars>>

RawDecrypt ==
    /\ kpc = "encrypted"
    /\ \E r \in IF key.nbits >= BlindBits THEN RLo..RHi ELSE {0} :
          /\ kr' = r
          /\ kout' = _decrypt(key, kc.val, r)
    /\ kpc' = "decrypted"
    /\ UNCHANGED <<key, km, kc, codecVars, arithVars, primeVars, keyVars>>

CipherNext == RawEncrypt \/ RawDecrypt

CipherSpec == CipherInit /\ [][CipherNext]_vars

(***************************************************************************)
(* Specification of the constructor.  __init__ runs from its arguments to  *)
(* a constructed key or an exception; the two prime-search loops advance   *)
(* one draw (getrandbits, randrange) at a time.                            *)
(***************************************************************************)
Args ==
    [p : ArgP, q : ArgQ, e : ArgE, n : ArgN, d : ArgD,
     keylength : 0..MaxKeylen, ignore_warning : BOOLEAN,
     only_pubkey : BOOLEAN]

KeyInit ==
    /\ CodecIdle
    /\ ArithIdle
    /\ CipherIdle
    /\ ppc = "idle" /\ pn = 0 /\ pk = 0 /\ pi = 0 /\ pwit = <<>>
    /\ pres = None
    /\ gpc = "start"
    /\ args \in Args
    /\ self = NoFields
    /\ gphase = None
    /\ gcand = 0
    /\ gerr = None

\* generate_prime_number is entered: p = 4, and is_prime(p, 128) is called
CallGenerate(phase) ==
    /\ gpc' = "generate"
    /\ gphase' = phase
    /\ gcand' = 4
    /\ ppc' = "call"
    /\ pn' = 4
    /\ pk' = Rounds
    /\ pi' = 0
    /\ pres' = None

Raise(kind) ==
    /\ gpc' = "error"
    /\ gerr' = kind

\* lines 53-71: the keylength check, the public-only branch, and p
InitStart ==
    /\ gpc = "start"
    /\ IF args.keylength < MinKeylength /\ ~args.ignore_warning
       THEN /\ Raise("ValueError")
            /\ UNCHANGED <<self, gphase, gcand, ppc, pn, pk, pi, pres>>
       ELSE IF args.only_pubkey
       THEN IF args.e = 0 \/ args.n = 0
            THEN /\ Raise("ValueError")
                 /\ UNCHANGED <<self, gphase, gcand, ppc, pn, pk, pi, pres>>
            ELSE /\ gpc' = "done"
                 /\ self' = [e |-> args.e, n |-> args.n,
                              nbits |-> bitcount(args.n)]
                 /\ UNCHANGED <<gerr, gphase, gcand, ppc, pn, pk, pi, pres>>
       ELSE IF args.p # 0
       THEN /\ gpc' = "have_p"
            /\ self' = [p |-> args.p]
            /\ UNCHANGED <<gerr, gphase, gcand, ppc, pn, pk, pi, pres>>
       ELSE /\ CallGenerate("p")
            /\ UNCHANGED <<self, gerr>>
    /\ UNCHANGED <<args, pwit, codecVars, arithVars, cipherVars>>

\* lines 72-78: pcheck = self.p; q is taken, or the loop
\* "while pcheck == self.p" is entered (its test holds the first time)
InitHaveP ==
    /\ gpc = "have_p"
    /\ IF args.q # 0
       THEN /\ gpc' = "have_q"
            /\ self' = [p |-> self.p, q |-> args.q]
            /\ UNCHANGED <<gphase, gcand, ppc, pn, pk, pi, pres>>
       ELSE /\ CallGenerate("q")
            /\ UNCHANGED self
    /\ UNCHANGED <<args, gerr, pwit, codecVars, arithVars, cipherVars>>

\* generate_prime_number: is_prime answered False, so
\* p = generate_prime_candidate(length) with getrandbits(length) = g
\* (1 << length - 1 raises ValueError for length 0)
GenerateDraw(g) ==
    /\ gpc = "generate"
    /\ ppc = "done"
    /\ pres = "False"
    /\ LET length == args.keylength \div 2
       IN  IF length = 0
           THEN /\ g = 0
                /\ Raise("ValueError")
                /\ UNCHANGED <<gcand, ppc, pn, pk, pi, pres>>
           ELSE /\ g \in 0..(Pow2(length) - 1)
                /\ gcand' = generate_prime_candidate(g, length)
                /\ ppc' = "call"
                /\ pn' = gcand'
                /\ pi' = 0
                /\ pres' = None
                /\ UNCHANGED <<gpc, gerr, pk>>
    /\ UNCHANGED <<args, self, gphase, pwit, codecVars, arithVars, cipherVars>>

\* generate_prime_number: is_prime answered True, p is returned.  It
\* becomes self.p, or pcheck: the loop "while pcheck == self.p" calls
\* generate_prime_number again or ends with self.q = pcheck.
GenerateReturn ==
    /\ gpc = "generate"
    /\ ppc = "done"
    /\ pres = "True"
    /\ IF gphase = "p"
       THEN /\ gpc' = "have_p"
            /\ self' = [p |-> gcand]
            /\ UNCHANGED <<gphase, gcand, ppc, pn, pk, pi, pres>>
       ELSE IF gcand = self.p
       THEN /\ CallGenerate("q")
            /\ UNCHANGED self
       ELSE /\ gpc' = "have_q"
            /\ self' = [p |-> self.p, q |-> gcand]
            /\ UNCHANGED <<gphase, gcand, ppc, pn, pk, pi, pres>>
    /\ UNCHANGED <<args, gerr, pwit, codecVars, arithVars, cipherVars>>

\* lines 79-88: the fields are derived and quick_test is run; r is the
\* blinding factor drawn by the _decrypt of quick_test
InitFinish ==
    /\ gpc = "have_q"
    /\ \E r \in IF bitcount(IF args.n # 0 THEN args.n ELSE self.p * self.q)
                    >= BlindBits
                THEN RLo..RHi ELSE {0} :
          LET res == InitDerive(args, self.p, self.q, r)
          IN  IF res.kind = "done"
              THEN gpc' = "done" /\ self' = res.self /\ gerr' = gerr
              ELSE Raise(res.kind) /\ self' = self
    /\ UNCHANGED <<args, gphase, gcand, primeVars, codecVars, arithVars,
                   cipherVars>>

\* The rounds of the is_prime called by generate_prime_number.
IsPrimeRoundInGenerate == IsPrimeRoundWith(FALSE)

KeyNext ==
    \/ InitStart
    \/ InitHaveP
    \/ \E g \in 0..(Pow2(MaxKeylen \div 2) - 1) : GenerateDraw(g)
    \/ GenerateReturn
    \/ InitFinish
    \/ IsPrimeEnter
    \/ IsPrimeRoundInGenerate
    \/ IsPrimeReturn

KeySpec == KeyInit /\ [][KeyNext]_vars

(***************************************************************************)
(* Specification of key generation: the constructor is called with no key  *)
(* material and ignore_warning set, and its random draws are fair.  Of the *)
(* fairness of getrandbits only this much is assumed: a draw that ends the *)
(* search (a prime, other than p when q is sought) is made if it is        *)
(* possible again and again.  Strong fairness of every single value of     *)
(* getrandbits implies it, the values of a length being finitely many.     *)
(***************************************************************************)
GenInit ==
    /\ KeyInit
    /\ args.p = 0 /\ args.q = 0 /\ args.e = 0 /\ args.n = 0 /\ args.d = 0
    /\ args.ignore_warning
    /\ ~args.only_pubkey
    /\ args.keylength >= 2

GenerateDrawEnding ==
    \E g \in 0..(Pow2(MaxKeylen \div 2) - 1) :
        /\ GenerateDraw(g)
        /\ IsPrime(gcand')
        /\ gphase = "q" => gcand' # self.p

\* The steps to the end of the two loops, but for the draw of a candidate:
\* the program runs on.
InitRuns ==
    \/ InitStart
    \/ InitHaveP
    \/ GenerateReturn
    \/ IsPrimeEnter
    \/ IsPrimeRoundInGenerate
    \/ IsPrimeReturn

GenFairness ==
    /\ WF_vars(InitRuns)
    /\ WF_vars(\E g \in 0..(Pow2(MaxKeylen \div 2) - 1) : GenerateDraw(g))
    /\ SF_vars(GenerateDrawEnding)

GenSpec == GenInit /\ [][KeyNext]_vars /\ GenFairness

(***************************************************************************)
(* Claims about the codec.                                                 *)
(***************************************************************************)
Supported(msg) == \A k \in 1..Len(msg) : msg[k] < 10000

\* C6: decoding the encoding of a string whose code points are all below
\* 10000 gives the string back (the empty string, code point 0 and a
\* leading character 1421 included).
C6_RoundTrip ==
    (cpc = "decoded" /\ Supported(cmsg)) => cout = cmsg

C6_Witness ==
    /\ cpc = "decoded"
    /\ Len(cmsg) = 2
    /\ cmsg[1] = 1421
    /\ cmsg[2] = 0
    /\ cout = cmsg

\* C7: a string with a code point of 10000 or more is rejected by the
\* encoder with UnsupportedCharacter; no integer is returned for it.
C7_Rejects ==
    (cpc # "init" /\ ~Supported(cmsg)) => cnum.kind = "UnsupportedCharacter"

(***************************************************************************)
(* Claims about get_d and get_e.                                           *)
(***************************************************************************)
\* C4: for phi >= 2 and e >= 1 coprime to phi (e > phi included) get_d
\* returns a d >= 0 with (e*d) mod phi = 1; for e not coprime to phi it
\* returns no value and ends in an error.
C4_Inverse ==
    (apc = "d_done" /\ aphi >= 2) =>
        IF Gcd(ae, aphi) = 1
        THEN /\ ares.kind = "value"
             /\ ares.val >= 0
             /\ (ae * ares.val) % aphi = 1
        ELSE ares.kind \notin {"value", "diverges"}

C4_Witness ==
    /\ apc = "d_done"
    /\ aphi = 7
    /\ ae = 10
    /\ ares = [kind |-> "value", val |-> 5]

C4_WitnessError ==
    /\ apc = "d_done"
    /\ aphi = 4
    /\ ae = 2
    /\ ares.kind = "ZeroDivisionError"

\* C5: get_e returns the least odd i in 3..9999 coprime to phi, and signals
\* ExponentSearchExhausted, rather than returning an undefined value, when
\* there is none.
C5_LeastCoprime ==
    apc = "e_done" =>
        IF \E i \in 3..9999 : i % 2 = 1 /\ Gcd(i, aphi) = 1
        THEN /\ ares.kind = "value"
             /\ ares.val \in 3..9999
             /\ ares.val % 2 = 1
             /\ Gcd(ares.val, aphi) = 1
             /\ \A i \in 3..(ares.val - 1) :
                    i % 2 = 1 => Gcd(i, aphi) # 1
        ELSE ares.kind = "ExponentSearchExhausted"

(***************************************************************************)
(* Claims about is_prime.                                                  *)
(***************************************************************************)
IsSemiprime(n) ==
    \E a \in 2..n : \E b \in 2..n : a * b = n /\ IsPrime(a) /\ IsPrime(b)

RECURSIVE NaivePow(_, _, _)
NaivePow(b, e, n) == IF e = 0 THEN 1 % n ELSE (b * NaivePow(b, e - 1, n)) % n

\* a is a strong liar for the odd number n = 2^s * r + 1 (r odd):
\* a^r = 1 or a^(2^j * r) = -1 (mod n) for some j < s.
StrongLiar(n, a) ==
    LET s == CHOOSE t \in 0..n :
                 (n - 1) % Pow2(t) = 0 /\ ((n - 1) \div Pow2(t)) % 2 = 1
        r == (n - 1) \div Pow2(s)
    IN  \/ NaivePow(a, r, n) = 1
        \/ \E j \in 0..(s - 1) : NaivePow(a, Pow2(j) * r, n) = n - 1

\* C8: is_prime never answers False for a prime, whatever the round count
\* and the witnesses; for n <= 1 and for even n > 2 it answers False without
\* drawing a witness.
C8_NoFalseNegative ==
    ppc = "done" =>
        /\ IsPrime(pn) => pres = "True"
        /\ (pn <= 1 \/ (pn > 2 /\ pn % 2 = 0)) => (pres = "False" /\ pwit = <<>>)

C8_Witness ==
    /\ ppc = "done"
    /\ pn = 17
    /\ pk = 2
    /\ pwit = <<3, 5>>
    /\ pres = "True"

\* C9 as stated: is_prime answers False for every composite n that is even
\* or a product of two primes, for k >= 1 and whatever the witnesses.
C9_CompositeRejected ==
    (ppc = "done" /\ pk >= 1 /\ pn > 3 /\ (pn % 2 = 0 \/ IsSemiprime(pn)))
        => pres = "False"

\* C9 amended: for k >= 1, an even composite n is answered False; a product
\* of two odd primes is answered False exactly when one of the witnesses
\* drawn is not a strong liar for n, and True when all k of them are.
C9_CompositeRejectedUnlessLiars ==
    (ppc = "done" /\ pk >= 1 /\ pn > 3 /\ (pn % 2 = 0 \/ IsSemiprime(pn)))
        => IF pn % 2 = 0
           THEN pres = "False"
           ELSE pres = IF \A i \in 1..Len(pwit) : StrongLiar(pn, pwit[i])
                       THEN "True" ELSE "False"

C9_Witness ==
    /\ ppc = "done"
    /\ pn = 25
    /\ pk = 2
    /\ pwit = <<7, 2>>
    /\ pres = "False"

C9_WitnessLiars ==
    /\ ppc = "done"
    /\ pn = 25
    /\ pwit = <<7, 18>>
    /\ pres = "True"

(***************************************************************************)
(* Claims about the raw transforms.                                        *)
(***************************************************************************)
\* C1: on the blinded path, under a valid key, a message whose bit length
\* is below nbits is recovered by _decrypt(_encrypt(m)) whatever blinding
\* factor is drawn.
C1_BlindedRoundTrip ==
    (kpc = "decrypted" /\ key.nbits >= BlindBits) => kout = km

\* C2: on the unblinded path, under a valid key, every m >= 0 whose bit
\* length is below nbits is recovered by _decrypt(_encrypt(m)), also when
\* m shares a factor with n.
C2_PlainRoundTrip ==
    /\ (kpc = "decrypted" /\ key.nbits < BlindBits) => kout = km
    /\ (kpc = "error") => bitcount(km) >= key.nbits

C2_Witness ==
    /\ kpc = "decrypted"
    /\ key.nbits < BlindBits
    /\ key.p = 5
    /\ key.q = 11
    /\ km = 22
    /\ kc.val # km
    /\ kout = km

(***************************************************************************)
(* Claims about the constructor.                                           *)
(***************************************************************************)
\* C3: a private-mode key whose construction completes has n = p*q and
\* p # q, whichever of p, q, e, n, d were supplied.
C3_ModulusIsProduct ==
    (gpc = "done" /\ ~args.only_pubkey) =>
        (self.n = self.p * self.q /\ self.p # self.q)

\* Both prime-search loops of __init__ are behind.
LeftLoops == gpc \in {"have_q", "done", "error"}

\* C10 as stated: with p and q not supplied, for every keylength >= 2,
\* the constructor eventually leaves both prime-search loops.
C10_LeavesLoops == <>LeftLoops

\* C10 amended: for every keylength >= 6 the constructor eventually leaves
\* both prime-search loops, and it leaves them with p and q of exactly
\* keylength // 2 bits, each accepted by is_prime, and q # p; for a
\* keylength of 2 to 5 it never leaves them.
C10_LeavesLoopsFrom6 ==
    /\ (args.keylength >= 6) ~> LeftLoops
    /\ [](args.keylength \in 2..5 => ~LeftLoops)
    /\ [](gpc = "have_q" =>
            /\ bitcount(self.p) = args.keylength \div 2
            /\ bitcount(self.q) = args.keylength \div 2
            /\ self.q # self.p
            /\ pres = "True"
            /\ pn = self.q)

C10_Witness ==
    /\ gpc = "have_q"
    /\ args.keylength = 8
    /\ self.p = 13
    /\ self.q = 11

====
